---- MODULE Spec2Model ----
(***************************************************************************)
(* The CSV parser of clickhouse_sinker: CsvParser.Parse turns one record   *)
(* of bytes into a CsvMetric, whose getters coerce the cells on demand.    *)
(*                                                                         *)
(* Text is a sequence of one-character strings (<<"4","2">> is "42"), so   *)
(* that the readers and number parsers work byte by byte as the code and   *)
(* the libraries it calls do.                                              *)
(***************************************************************************)
EXTENDS Integers, Sequences, FiniteSets, TLC

(***************************************************************************)
(* Bytes                                                                   *)
(***************************************************************************)

\* ASCII codes of the bytes that occur in the inputs of the model.
CharCode ==
    ("\n" :> 10) @@ ("\r" :> 13) @@ (" " :> 32) @@ ("\"" :> 34) @@ ("+" :> 43)
    @@ ("," :> 44) @@ ("-" :> 45) @@ ("." :> 46)
    @@ ("0" :> 48) @@ ("1" :> 49) @@ ("2" :> 50) @@ ("3" :> 51) @@ ("4" :> 52)
    @@ ("5" :> 53) @@ ("6" :> 54) @@ ("7" :> 55) @@ ("8" :> 56) @@ ("9" :> 57)
    @@ (";" :> 59) @@ ("E" :> 69) @@ ("R" :> 82) @@ ("T" :> 84) @@ ("U" :> 85)
    @@ ("[" :> 91) @@ ("]" :> 93)
    @@ ("a" :> 97) @@ ("b" :> 98) @@ ("c" :> 99) @@ ("e" :> 101) @@ ("f" :> 102)
    @@ ("l" :> 108) @@ ("n" :> 110) @@ ("r" :> 114) @@ ("s" :> 115)
    @@ ("t" :> 116) @@ ("u" :> 117) @@ ("{" :> 123) @@ ("}" :> 125)

Code(c) == CharCode[c]

IsDigit(c) == Code(c) >= 48 /\ Code(c) <= 57

DigitVal(c) == Code(c) - 48

\* s[from..], the Go slice s[from-1:] (positions here count from 1).
Drop(s, from) == SubSeq(s, from, Len(s))

\* bytes.IndexByte / bytes.IndexRune on s: the first position >= 1 of c, 0 if none.
IndexOf(s, c) ==
    IF \E i \in 1..Len(s) : s[i] = c
    THEN CHOOSE i \in 1..Len(s) : s[i] = c /\ \A j \in 1..(i - 1) : s[j] # c
    ELSE 0

(***************************************************************************)
(* encoding/csv Reader.Read, as Parse configures it: Comma set from the    *)
(* pool's delimiter, FieldsPerRecord = len(csvFormat), no Comment,         *)
(* LazyQuotes and TrimLeadingSpace off.                                    *)
(***************************************************************************)

\* rune(delimiter[0]) when the delimiter is set, the reader's default ',' otherwise.
Comma(delim) == IF Len(delim) > 0 THEN delim[1] ELSE ","

\* csv.validDelim for the bytes of the model.
ValidDelim(c) == c \notin {"\"", "\r", "\n"}

\* csv.lengthNL: 1 when the line ends in '\n', else 0.
LengthNL(line) == IF Len(line) > 0 /\ line[Len(line)] = "\n" THEN 1 ELSE 0

\* The end of Reader.readLine: a final "\r\n" becomes "\n".
NormalizeLine(line) ==
    IF Len(line) >= 2 /\ line[Len(line) - 1] = "\r" /\ line[Len(line)] = "\n"
    THEN Append(SubSeq(line, 1, Len(line) - 2), "\n")
    ELSE line

\* The line read at io.EOF loses a trailing '\r'.
DropLastCR(line) ==
    IF Len(line) > 0 /\ line[Len(line)] = "\r" THEN SubSeq(line, 1, Len(line) - 1)
    ELSE line

\* ReadSlice('\n') on the rest of the input, nl the position of its first '\n'.
LineOf(rest, nl, pos) ==
    IF nl > 0
    THEN [line |-> NormalizeLine(SubSeq(rest, 1, nl)), next |-> pos + nl, eof |-> FALSE]
    ELSE [line |-> DropLastCR(rest), next |-> pos + Len(rest), eof |-> Len(rest) = 0]

\* Reader.readLine from position pos of bs: the line up to and including the
\* next '\n' (or the rest of the input), a '\r' before EOF dropped, and a
\* final "\r\n" turned into "\n".  eof is io.EOF: nothing was left to read.
ReadLine(bs, pos) == LineOf(Drop(bs, pos), IndexOf(Drop(bs, pos), "\n"), pos)

\* The loop at the head of readRecord: skip empty lines; the first line that
\* is not empty, or io.EOF.
RECURSIVE FirstLine(_, _)
FirstLine(bs, pos) ==
    LET l == ReadLine(bs, pos)
    IN IF l.eof THEN l
       ELSE IF Len(l.line) = LengthNL(l.line) THEN FirstLine(bs, l.next)
       ELSE l

\* The parseField loop of readRecord, one step at a time.  st holds what is
\* left of the current line (line), the position of the following line in bs
\* (next), the fields so far (fields), the text so far of a quoted field
\* (buf), and where the loop is: at the start of a field ("field"), inside a
\* quoted field ("quoted"), or at its end ("done") with the error err.

\* The start of a field: a field without quotes is read whole; a quote opens
\* a quoted field.
ParseField(comma, st) ==
    IF Len(st.line) = 0 \/ st.line[1] # "\""
    THEN LET i     == IndexOf(st.line, comma)
             field == IF i > 0 THEN SubSeq(st.line, 1, i - 1)
                      ELSE SubSeq(st.line, 1, Len(st.line) - LengthNL(st.line))
         IN IF IndexOf(field, "\"") > 0
            THEN [st EXCEPT !.at = "done", !.err = "ErrBareQuote"]
            ELSE IF i > 0
            THEN [st EXCEPT !.line = Drop(st.line, i + 1), !.fields = Append(@, field)]
            ELSE [st EXCEPT !.at = "done", !.fields = Append(@, field)]
    ELSE [st EXCEPT !.at = "quoted", !.line = Drop(st.line, 2), !.buf = <<>>]

\* Inside a quoted field: up to the next quote, which is doubled, ends the
\* field, or is misplaced; without a quote on the line the field goes on
\* with the next line, and ends in an error when there is none.
QuotedField(bs, comma, st) ==
    LET i == IndexOf(st.line, "\"")
    IN IF i > 0
       THEN LET buf2 == st.buf \o SubSeq(st.line, 1, i - 1)
                rest == Drop(st.line, i + 1)
            IN IF Len(rest) > 0 /\ rest[1] = "\""
               THEN [st EXCEPT !.line = Drop(rest, 2), !.buf = Append(buf2, "\"")]
               ELSE IF Len(rest) > 0 /\ rest[1] = comma
               THEN [st EXCEPT !.at = "field", !.line = Drop(rest, 2),
                               !.fields = Append(@, buf2)]
               ELSE IF LengthNL(rest) = Len(rest)
               THEN [st EXCEPT !.at = "done", !.fields = Append(@, buf2)]
               ELSE [st EXCEPT !.at = "done", !.err = "ErrQuote"]
       ELSE IF Len(st.line) > 0
       THEN LET l == ReadLine(bs, st.next)
            IN [st EXCEPT !.line = l.line, !.next = l.next, !.buf = @ \o st.line]
       ELSE [st EXCEPT !.at = "done", !.err = "ErrQuote"]

RECURSIVE ParseFields(_, _, _)
ParseFields(bs, comma, st) ==
    IF st.at = "done" THEN st
    ELSE ParseFields(bs, comma, IF st.at = "field" THEN ParseField(comma, st)
                                ELSE QuotedField(bs, comma, st))

\* Reader.readRecord from position pos of bs, with FieldsPerRecord =
\* perRecord: the record, the error, and the position the reader stops at.
ReadRecord(bs, pos, comma, perRecord) ==
    IF ~ValidDelim(comma) THEN [fields |-> <<>>, err |-> "errInvalidDelim", next |-> pos]
    ELSE LET l == FirstLine(bs, pos)
         IN IF l.eof THEN [fields |-> <<>>, err |-> "EOF", next |-> l.next]
            ELSE LET r == ParseFields(bs, comma,
                                      [at |-> "field", line |-> l.line, next |-> l.next,
                                       fields |-> <<>>, buf |-> <<>>, err |-> "nil"])
                 IN IF perRecord > 0 /\ Len(r.fields) # perRecord /\ r.err = "nil"
                    THEN [fields |-> r.fields, err |-> "ErrFieldCount", next |-> r.next]
                    ELSE [fields |-> r.fields, err |-> r.err, next |-> r.next]

(***************************************************************************)
(* Numbers.  A float64 is the decimal m / 10^e, kept in lowest form (e > 0 *)
(* only when 10 does not divide m); the cells of the model are short, so   *)
(* every value is exact.  A time.Time is its number of seconds since the   *)
(* Unix epoch, as such a decimal.                                          *)
(***************************************************************************)

RECURSIVE Pow10(_)
Pow10(n) == IF n = 0 THEN 1 ELSE 10 * Pow10(n - 1)

RECURSIVE NumNorm(_)
NumNorm(x) ==
    IF x.m = 0 THEN [m |-> 0, e |-> 0]
    ELSE IF x.e > 0 /\ x.m % 10 = 0 THEN NumNorm([m |-> x.m \div 10, e |-> x.e - 1])
    ELSE x

NumOfInt(i) == [m |-> i, e |-> 0]

NumMul(x, y) == NumNorm([m |-> x.m * y.m, e |-> x.e + y.e])

\* int64(f): the conversion truncates toward zero.
NumTrunc(x) ==
    IF x.m >= 0 THEN x.m \div Pow10(x.e) ELSE -((-x.m) \div Pow10(x.e))

\* The whole seconds at or before the instant.
NumFloor(x) == x.m \div Pow10(x.e)

\* The first position >= i of s that holds no digit (Len(s) + 1 if none).
RECURSIVE DigitsEnd(_, _)
DigitsEnd(s, i) ==
    IF i <= Len(s) /\ IsDigit(s[i]) THEN DigitsEnd(s, i + 1) ELSE i

\* The value of the digits s[i..j-1] appended to the decimal number d.
RECURSIVE DigitsVal(_, _, _, _)
DigitsVal(s, i, j, d) ==
    IF i >= j THEN d ELSE DigitsVal(s, i + 1, j, d * 10 + DigitVal(s[i]))

\* strconv.ParseFloat(s, 64) on decimal literals: an optional sign, digits
\* with an optional '.', at least one digit, nothing after.  (No cell of the
\* model is an exponent, hexadecimal, infinity or NaN literal, which
\* ParseFloat accepts as well.)
ParseFloat(s) ==
    LET i      == IF Len(s) > 0 /\ s[1] \in {"+", "-"} THEN 2 ELSE 1
        intEnd == DigitsEnd(s, i)
        dot    == intEnd <= Len(s) /\ s[intEnd] = "."
        end    == IF dot THEN DigitsEnd(s, intEnd + 1) ELSE intEnd
        nfrac  == IF dot THEN end - (intEnd + 1) ELSE 0
        mant   == DigitsVal(s, intEnd + 1, end, DigitsVal(s, i, intEnd, 0))
        neg    == Len(s) > 0 /\ s[1] = "-"
    IN IF (intEnd - i) + nfrac > 0 /\ end = Len(s) + 1
       THEN [ok  |-> TRUE,
             num |-> NumNorm([m |-> IF neg THEN -mant ELSE mant, e |-> nfrac])]
       ELSE [ok |-> FALSE, num |-> NumOfInt(0)]

\* fastfloat.ParseInt64BestEffort: an optional '-' and digits, and nothing
\* else; 0 for anything that is not exactly that.  (Past 18 digits the library
\* hands the text to strconv.ParseInt; no cell of the model is that long.)
ParseInt64BestEffort(s) ==
    IF Len(s) = 0 THEN 0
    ELSE LET minus == s[1] = "-"
             j     == IF minus THEN 2 ELSE 1
             i     == DigitsEnd(s, j)
             d     == DigitsVal(s, j, i, 0)
         IN IF j > Len(s) THEN 0
            ELSE IF i <= j THEN 0
            ELSE IF i <= Len(s) THEN 0
            ELSE IF minus THEN -d ELSE d

\* fastfloat.ParseBestEffort: an optional '-', digits and an optional
\* fraction ('.' and digits), and nothing else; 0 for anything else.  (The
\* exponent, infinity and NaN forms it also reads do not occur in the model;
\* a number without digits before or after its '.' reads as 0 here, as in the
\* library release of the repository's time.)
ParseBestEffort(s) ==
    IF Len(s) = 0 THEN NumOfInt(0)
    ELSE LET minus == s[1] = "-"
             j     == IF minus THEN 2 ELSE 1
             i     == DigitsEnd(s, j)
             d     == DigitsVal(s, j, i, 0)
             k     == i + 1
             fe    == DigitsEnd(s, k)
             f     == DigitsVal(s, k, fe, d)
             sign(x) == IF minus THEN -x ELSE x
         IN IF j > Len(s) THEN NumOfInt(0)
            ELSE IF i <= j THEN NumOfInt(0)
            ELSE IF i > Len(s) THEN NumOfInt(sign(d))
            ELSE IF s[i] = "." /\ k <= Len(s) /\ fe > Len(s)
            THEN NumNorm([m |-> sign(f), e |-> fe - k])
            ELSE NumOfInt(0)

(***************************************************************************)
(* gjson.Parse(str).Array() on a cell that starts with '[': the elements   *)
(* of the array, each with its Type, Raw text, Str and Num.                *)
(***************************************************************************)

\* The first position >= i of json whose byte is in stops, Len(json) + 1 if none.
RECURSIVE ScanTo(_, _, _)
ScanTo(json, i, stops) ==
    IF i > Len(json) \/ json[i] \in stops THEN i ELSE ScanTo(json, i + 1, stops)

\* gjson.tolit: a literal runs while the bytes are 'a'..'z'.
Tolit(json) ==
    LET NotLower == {c \in DOMAIN CharCode : Code(c) < 97 \/ Code(c) > 122}
    IN SubSeq(json, 1, ScanTo(json, 2, NotLower) - 1)

\* gjson.tostr: the string up to its closing quote, or to the end of the
\* text when it is not closed.  (No cell of the model holds a backslash.)
Tostr(json) ==
    LET i == ScanTo(json, 2, {"\""})
    IN IF i <= Len(json)
       THEN [raw |-> SubSeq(json, 1, i), str |-> SubSeq(json, 2, i - 1)]
       ELSE [raw |-> json, str |-> Drop(json, 2)]

\* gjson.tonum: a number runs to the next whitespace, ',', ']' or '}'; its
\* value is strconv.ParseFloat of that text, 0 when it does not parse.
Tonum(json) ==
    LET Ends == {c \in DOMAIN CharCode : Code(c) <= 32 \/ c \in {",", "]", "}"}}
        raw == SubSeq(json, 1, ScanTo(json, 2, Ends) - 1)
    IN [raw |-> raw, num |-> ParseFloat(raw).num]

\* gjson.squash: the nested array or object up to its matching bracket,
\* strings skipped, or the whole text when it is not closed.
RECURSIVE SquashEnd(_, _, _)
SquashEnd(json, i, depth) ==
    IF i > Len(json) THEN Len(json)
    ELSE IF json[i] \in {"}", "]"} /\ depth = 1 THEN i
    ELSE SquashEnd(json,
                   IF json[i] = "\"" THEN ScanTo(json, i + 1, {"\""}) + 1 ELSE i + 1,
                   IF json[i] \in {"{", "["} THEN depth + 1
                   ELSE IF json[i] \in {"}", "]"} THEN depth - 1
                   ELSE depth)

Squash(json) == SubSeq(json, 1, SquashEnd(json, 2, 1))

\* The value that starts at the head of json, by its first byte.
GjsonValue(json) ==
    LET c == json[1]
    IN IF IsDigit(c) \/ c = "-"
       THEN LET n == Tonum(json)
            IN [Type |-> "Number", Raw |-> n.raw, Str |-> <<>>, Num |-> n.num]
       ELSE IF c \in {"{", "["}
       THEN [Type |-> "JSON", Raw |-> Squash(json), Str |-> <<>>, Num |-> NumOfInt(0)]
       ELSE IF c = "\""
       THEN LET t == Tostr(json)
            IN [Type |-> "String", Raw |-> t.raw, Str |-> t.str, Num |-> NumOfInt(0)]
       ELSE [Type |-> CASE c = "n" -> "Null" [] c = "t" -> "True" [] c = "f" -> "False",
             Raw |-> Tolit(json), Str |-> <<>>, Num |-> NumOfInt(0)]

\* The element loop of gjson's arrayOrMap: whitespace and any byte that starts
\* no value are skipped, ']' or '}' ends the array.
RECURSIVE GjsonElements(_, _, _)
GjsonElements(json, i, a) ==
    IF i > Len(json) THEN a
    ELSE IF json[i] \in {"]", "}"} THEN a
    ELSE LET c      == json[i]
             starts == IsDigit(c) \/ c \in {"-", "{", "[", "n", "t", "f", "\""}
             v      == GjsonValue(Drop(json, i))
         IN GjsonElements(json, IF starts THEN i + Len(v.Raw) ELSE i + 1,
                          IF starts THEN Append(a, v) ELSE a)

\* gjson.Parse(str).Array() for str[0] = '['.
GjsonArray(str) == GjsonElements(str, 2, <<>>)

\* Result.Int() of a Number: the float converted to int64.  (Every number of
\* the model lies inside the range gjson converts directly.)
GjsonInt(e) == NumTrunc(e.Num)

(***************************************************************************)
(* The state: the pool's configuration, the bytes handed to Parse and what *)
(* their producer wrote, and the results of the calls made so far.         *)
(***************************************************************************)

VARIABLES
    pp,        \* the Pool: csvFormat (column name -> index), delimiter, timeUnit
    sent,      \* what the producer of the record wrote
    bs,        \* the bytes given to Parse
    pc,        \* "input", "metric" (Parse returned a metric), "failed", "halted"
    metric,    \* the CsvMetric Parse returned: [values |-> ...], or NoMetric
    err,       \* the error Parse returned, "nil" if none
    call,      \* the last getter called on the metric, with its arguments
    res,       \* what that getter returned
    resolver   \* the calls pp.ParseDateTime received during that getter

vars == <<pp, sent, bs, pc, metric, err, call, res, resolver>>

NoMetric == [values |-> <<>>, isNil |-> TRUE]

NoCall == [op |-> "none", key |-> "", nullable |-> FALSE, typ |-> "none"]

NullText == <<"n", "u", "l", "l">>

TrueText == <<"t", "r", "u", "e">>

\* The values a getter returns in its interface{}: nil, or a typed value.
Nil == [t |-> "nil"]

StringVal(s) == [t |-> "string", v |-> s]

BoolVal(b) == [t |-> "bool", v |-> b]

IntVal(i) == [t |-> "int64", v |-> i]

FloatVal(x) == [t |-> "float64", v |-> x]

TimeVal(x) == [t |-> "time.Time", v |-> x]

ArrayVal(typ, a) == [t |-> "array", elem |-> typ, v |-> a]

\* The element types GetArray has a case for.
ArrayTypes == {"Bool", "Int", "Float", "String", "DateTime"}

(***************************************************************************)
(* The pool's helpers the getters call.                                    *)
(***************************************************************************)

\* The sentinel instant: the Unix epoch.
Epoch == NumOfInt(0)

\* The number read as a Unix timestamp in the pool's time unit.
UnixFloat(sec, unit) == NumMul(sec, unit)

\* The date layout configured for a column.
DateLayout(key) == IF key = "c1" THEN "2006-01-02" ELSE "2006"

\* pp.ParseDateTime(key, s): the text read by the column's date layout.
ParseDateTime(key, s) ==
    LET layout == DateLayout(key)
    IN IF layout = "2006-01-02" /\ s = <<"1", "9", "7", "0", "-", "0", "1", "-", "0", "2">>
       THEN [ok |-> TRUE, t |-> NumOfInt(86400)]
       ELSE IF layout = "2006" /\ s = <<"1", "9", "7", "1">>
       THEN [ok |-> TRUE, t |-> NumOfInt(31536000)]
       ELSE IF layout = "2006" /\ s = <<"1", "9", "7", "0">>
       THEN [ok |-> TRUE, t |-> NumOfInt(0)]
       ELSE [ok |-> FALSE, t |-> Epoch]

\* makeArray(typ): the empty array of the element type; an element type
\* outside the supported set is the fatal configuration error.
MakeArray(typ) ==
    [val |-> ArrayVal(typ, <<>>), resolver |-> <<>>, fatal |-> typ \notin ArrayTypes]

(***************************************************************************)
(* CsvParser.Parse                                                         *)
(***************************************************************************)

\* Parse without the length check after the read.
ParseNoCheck(p, input) ==
    LET n == Cardinality(DOMAIN p.csvFormat)
        r == ReadRecord(input, 1, Comma(p.delimiter), n)
    IN IF r.err # "nil" THEN [metric |-> NoMetric, err |-> r.err]
       ELSE [metric |-> [values |-> r.fields, isNil |-> FALSE], err |-> "nil"]

\* Parse that leaves the reader's Comma at its default.
ParseDefaultComma(p, input) ==
    LET n == Cardinality(DOMAIN p.csvFormat)
        r == ReadRecord(input, 1, ",", n)
    IN IF r.err # "nil" THEN [metric |-> NoMetric, err |-> r.err]
       ELSE IF Len(r.fields) # n THEN [metric |-> NoMetric, err |-> "ErrFormat"]
       ELSE [metric |-> [values |-> r.fields, isNil |-> FALSE], err |-> "nil"]

\* Parse that reads on to the end of the input and keeps the last record.
RECURSIVE LastRecord(_, _, _, _, _)
LastRecord(input, pos, comma, n, last) ==
    LET r == ReadRecord(input, pos, comma, n)
    IN IF r.err = "EOF" THEN last
       ELSE IF r.err # "nil" THEN r
       ELSE LastRecord(input, r.next, comma, n, r)

ParseLast(p, input) ==
    LET n == Cardinality(DOMAIN p.csvFormat)
        r == LastRecord(input, 1, Comma(p.delimiter), n,
                        [fields |-> <<>>, err |-> "EOF", next |-> 1])
    IN IF r.err # "nil" THEN [metric |-> NoMetric, err |-> r.err]
       ELSE IF Len(r.fields) # n THEN [metric |-> NoMetric, err |-> "ErrFormat"]
       ELSE [metric |-> [values |-> r.fields, isNil |-> FALSE], err |-> "nil"]

Parse(p, input) ==
    LET n == Cardinality(DOMAIN p.csvFormat)
        r == ReadRecord(input, 1, Comma(p.delimiter), n)
    IN IF r.err # "nil" THEN [metric |-> NoMetric, err |-> r.err]
       ELSE IF Len(r.fields) # n THEN [metric |-> NoMetric, err |-> "ErrFormat"]
       ELSE [metric |-> [values |-> r.fields, isNil |-> FALSE], err |-> "nil"]

(***************************************************************************)
(* The getters of CsvMetric.  c is the metric, p its pool; csvFormat holds *)
(* Go's zero-based index, so c.values[idx] is c.values[idx + 1] here.      *)
(***************************************************************************)

Known(p, key) == key \in DOMAIN p.csvFormat

Cell(p, c, key) == c.values[p.csvFormat[key] + 1]

GetString(p, c, key, nullable) ==
    IF ~Known(p, key) \/ Cell(p, c, key) = NullText
    THEN IF nullable THEN Nil ELSE StringVal(<<>>)
    ELSE StringVal(Cell(p, c, key))

\* GetFloat that returns the zero value whatever nullable is.
GetFloatIgnoresNullable(p, c, key, nullable) ==
    IF ~Known(p, key) \/ Cell(p, c, key) = NullText
    THEN FloatVal(NumOfInt(0))
    ELSE FloatVal(ParseBestEffort(Cell(p, c, key)))

GetFloat(p, c, key, nullable) ==
    IF ~Known(p, key) \/ Cell(p, c, key) = NullText
    THEN IF nullable THEN Nil ELSE FloatVal(NumOfInt(0))
    ELSE FloatVal(ParseBestEffort(Cell(p, c, key)))

GetBool(p, c, key, nullable) ==
    IF ~Known(p, key) \/ Cell(p, c, key) = <<>> \/ Cell(p, c, key) = NullText
    THEN IF nullable THEN Nil ELSE BoolVal(FALSE)
    ELSE BoolVal(Cell(p, c, key) = TrueText)

\* GetInt without the case for "true".
GetIntNoTrue(p, c, key, nullable) ==
    IF ~Known(p, key) \/ Cell(p, c, key) = NullText
    THEN IF nullable THEN Nil ELSE IntVal(0)
    ELSE IntVal(ParseInt64BestEffort(Cell(p, c, key)))

GetInt(p, c, key, nullable) ==
    IF ~Known(p, key) \/ Cell(p, c, key) = NullText
    THEN IF nullable THEN Nil ELSE IntVal(0)
    ELSE IF Cell(p, c, key) = TrueText THEN IntVal(1)
    ELSE IntVal(ParseInt64BestEffort(Cell(p, c, key)))

\* GetDateTime that tries the column's date layout before the number.
GetDateTimeLayoutFirst(p, c, key, nullable) ==
    IF ~Known(p, key) \/ Cell(p, c, key) = NullText
    THEN [val |-> IF nullable THEN Nil ELSE TimeVal(Epoch), resolver |-> <<>>]
    ELSE LET s  == Cell(p, c, key)
             d  == ParseDateTime(key, s)
             dd == ParseFloat(s)
         IN [val |-> IF d.ok THEN TimeVal(d.t)
                     ELSE IF dd.ok THEN TimeVal(UnixFloat(dd.num, p.timeUnit))
                     ELSE TimeVal(Epoch),
             resolver |-> <<[key |-> key, s |-> s]>>]

\* val is the value returned, resolver the calls made to pp.ParseDateTime.
GetDateTime(p, c, key, nullable) ==
    IF ~Known(p, key) \/ Cell(p, c, key) = NullText
    THEN [val |-> IF nullable THEN Nil ELSE TimeVal(Epoch), resolver |-> <<>>]
    ELSE LET s  == Cell(p, c, key)
             dd == ParseFloat(s)
         IN IF ~dd.ok
            THEN LET d == ParseDateTime(key, s)
                 IN [val |-> IF d.ok THEN TimeVal(d.t) ELSE TimeVal(Epoch),
                     resolver |-> <<[key |-> key, s |-> s]>>]
            ELSE [val |-> TimeVal(UnixFloat(dd.num, p.timeUnit)), resolver |-> <<>>]

\* GetElasticDateTime that turns no value into 0 seconds.
GetElasticDateTimeZero(p, c, key, nullable) ==
    LET t == GetDateTime(p, c, key, nullable)
    IN [val |-> IF t.val.t # "nil" THEN IntVal(NumFloor(t.val.v)) ELSE IntVal(0),
        resolver |-> t.resolver]

GetElasticDateTime(p, c, key, nullable) ==
    LET t == GetDateTime(p, c, key, nullable)
    IN [val |-> IF t.val.t # "nil" THEN IntVal(NumFloor(t.val.v)) ELSE Nil,
        resolver |-> t.resolver]

\* ArrayElement whose Int case keeps the truncated number.
ArrayElementTruncates(p, key, typ, e) ==
    CASE typ = "Bool" -> e.Type = "True"
      [] typ = "Int" ->
            IF e.Type = "True" THEN 1
            ELSE IF e.Type = "Number" THEN GjsonInt(e)
            ELSE 0
      [] typ = "Float" -> IF e.Type = "Number" THEN e.Num ELSE NumOfInt(0)
      [] typ = "String" ->
            IF e.Type = "Null" THEN <<>>
            ELSE IF e.Type = "String" THEN e.Str
            ELSE e.Raw
      [] typ = "DateTime" ->
            IF e.Type = "Number" THEN UnixFloat(e.Num, p.timeUnit)
            ELSE IF e.Type = "String"
            THEN LET d == ParseDateTime(key, e.Str) IN IF d.ok THEN d.t ELSE Epoch
            ELSE Epoch

\* The element of the result for one element of the JSON array.
ArrayElement(p, key, typ, e) ==
    CASE typ = "Bool" -> e.Type = "True"
      [] typ = "Int" ->
            IF e.Type = "True" THEN 1
            ELSE IF e.Type = "Number"
            THEN IF NumOfInt(GjsonInt(e)) # e.Num THEN 0 ELSE GjsonInt(e)
            ELSE 0
      [] typ = "Float" -> IF e.Type = "Number" THEN e.Num ELSE NumOfInt(0)
      [] typ = "String" ->
            IF e.Type = "Null" THEN <<>>
            ELSE IF e.Type = "String" THEN e.Str
            ELSE e.Raw
      [] typ = "DateTime" ->
            IF e.Type = "Number" THEN UnixFloat(e.Num, p.timeUnit)
            ELSE IF e.Type = "String"
            THEN LET d == ParseDateTime(key, e.Str) IN IF d.ok THEN d.t ELSE Epoch
            ELSE Epoch

\* The elements of the result and the resolver calls made for them.
DecodeArray(p, key, typ, array) ==
    [val |-> ArrayVal(typ, [i \in 1..Len(array) |-> ArrayElement(p, key, typ, array[i])]),
     resolver |-> IF typ = "DateTime"
                  THEN LET strs == SelectSeq(array, LAMBDA e : e.Type = "String")
                       IN [i \in 1..Len(strs) |-> [key |-> key, s |-> strs[i].Str]]
                  ELSE <<>>,
     fatal |-> FALSE]

\* GetArray that returns no value for a cell that holds no array.
GetArrayNilOnEmpty(p, c, key, typ) ==
    LET s   == GetString(p, c, key, FALSE)
        str == s.v
    IN IF str = <<>> \/ str[1] # "["
       THEN [val |-> Nil, resolver |-> <<>>, fatal |-> typ \notin ArrayTypes]
       ELSE LET array == GjsonArray(str)
            IN IF Len(array) = 0 THEN MakeArray(typ)
               ELSE IF typ \notin ArrayTypes
               THEN [val |-> Nil, resolver |-> <<>>, fatal |-> TRUE]
               ELSE DecodeArray(p, key, typ, array)

\* GetArray whose switch has no default case.
GetArrayNoFatal(p, c, key, typ) ==
    LET s   == GetString(p, c, key, FALSE)
        str == s.v
    IN IF str = <<>> \/ str[1] # "[" THEN MakeArray(typ)
       ELSE LET array == GjsonArray(str)
            IN IF Len(array) = 0 THEN MakeArray(typ)
               ELSE IF typ \notin ArrayTypes
               THEN [val |-> Nil, resolver |-> <<>>, fatal |-> FALSE]
               ELSE DecodeArray(p, key, typ, array)

\* val is the array returned, resolver the calls made to pp.ParseDateTime,
\* fatal whether util.Logger.Fatal was reached (the process exits there).
GetArray(p, c, key, typ) ==
    LET s   == GetString(p, c, key, FALSE)
        str == s.v
    IN IF str = <<>> \/ str[1] # "[" THEN MakeArray(typ)
       ELSE LET array == GjsonArray(str)
            IN IF Len(array) = 0 THEN MakeArray(typ)
               ELSE IF typ \notin ArrayTypes
               THEN [val |-> Nil, resolver |-> <<>>, fatal |-> TRUE]
               ELSE DecodeArray(p, key, typ, array)

(***************************************************************************)
(* The inputs.  A record is written by its producer in RFC 4180 form, or   *)
(* the bytes are arbitrary.                                                *)
(***************************************************************************)

\* The largest number of columns of a configured format.
MaxCols == 2

\* The largest length of an arbitrary input.
MaxRaw == 3

\* The largest length of a generated numeric-looking cell.
MaxCellLen == 3

\* The largest number of elements of a generated JSON array.
MaxElems == 2

\* All sequences over S of length at most n.
RECURSIVE SeqsUpTo(_, _)
SeqsUpTo(S, n) ==
    IF n = 0 THEN {<<>>}
    ELSE LET shorter == SeqsUpTo(S, n - 1)
         IN shorter \cup {Append(q, x) : q \in shorter, x \in S}

Column(i) == "c" \o ToString(i)

\* The pool's csvFormat for the columns c1..cn: name -> zero-based index.
CsvFormat(n) == [k \in {Column(i) : i \in 1..n} |-> CHOOSE i \in 0..(n - 1) : Column(i + 1) = k]

Seconds == NumOfInt(1)

Milliseconds == [m |-> 1, e |-> 3]

\* The cell with its quotes doubled.
RECURSIVE Escape(_)
Escape(f) ==
    IF f = <<>> THEN <<>>
    ELSE (IF f[1] = "\"" THEN <<"\"", "\"">> ELSE <<f[1]>>) \o Escape(Tail(f))

\* A field as RFC 4180 writes it: quoted when it holds the delimiter, a
\* quote or a line break (or when the producer quotes every field).
EncodeField(f, comma, quoteAll) ==
    IF quoteAll \/ \E i \in 1..Len(f) : f[i] \in {comma, "\"", "\n", "\r"}
    THEN <<"\"">> \o Escape(f) \o <<"\"">>
    ELSE f

RECURSIVE JoinFields(_, _, _)
JoinFields(fields, comma, quoteAll) ==
    IF Len(fields) = 1 THEN EncodeField(fields[1], comma, quoteAll)
    ELSE EncodeField(fields[1], comma, quoteAll) \o <<comma>>
         \o JoinFields(Tail(fields), comma, quoteAll)

\* The record of the fields.  A record of one empty field is written "",
\* since an empty line is no record to the reader.
EncodeRecord(fields, comma, quoteAll) ==
    IF fields = << <<>> >> THEN <<"\"", "\"">> ELSE JoinFields(fields, comma, quoteAll)

\* What follows the record: its line break, then further rows or other data.
Endings ==
    { [term |-> <<>>, trailer |-> <<>>],
      [term |-> <<"\n">>, trailer |-> <<>>],
      [term |-> <<"\r", "\n">>, trailer |-> <<"a", "\n">>],
      [term |-> <<"\n">>, trailer |-> <<"\"", "a">>],
      [term |-> <<"\n">>,
       trailer |-> <<"a", ",", "a", ",", "a", ",", "a", ";", "a", ";", "a", ";", "a", "\n">>] }

\* Cells that exercise the record syntax.
ShapeCells ==
    { <<>>, <<"a">>, <<",", ";">>, <<"\"", "\n">>, NullText,
      <<"a", "b", "\r", "\n", "c">> }

\* Cells that exercise the coercions of the getters.
TextCells ==
    { <<>>, NullText, TrueText, <<"T", "R", "U", "E">>, <<"f", "a", "l", "s", "e">>,
      <<"a", "b", "c">>, <<"4", "2", ".", "9">>, <<"4", "2">>, <<"-", "4", "2">>,
      <<"1", "5", "0", "0">>, <<"1", "9", "7", "0">>, <<"1", "9", "7", "1">>,
      <<"1", "9", "7", "0", "-", "0", "1", "-", "0", "2">>,
      <<"a", "[", "1", "]">>, <<"[">>, <<"[", " ", "]">>, <<"[", "1", ",", "2">>,
      <<"[", "-", "3", ",", "\"", "1", "9", "7", "1", "\"", "]">>,
      <<"[", "1", ",", "2", ".", "5", ",", "t", "r", "u", "e", "]">> }

NumericCells == SeqsUpTo({"1", "-", ".", "a"}, MaxCellLen)

\* JSON values with the text that writes them.
JsonTexts ==
    { <<"1">>, <<"2", ".", "5">>, <<"2", ".", "0">>, TrueText,
      <<"f", "a", "l", "s", "e">>, NullText, <<"\"", "a", "\"">>,
      <<"[", "1", "]">>, <<"{", "}">> }

RECURSIVE JoinElems(_)
JoinElems(elems) ==
    IF Len(elems) = 0 THEN <<>>
    ELSE IF Len(elems) = 1 THEN elems[1]
    ELSE elems[1] \o <<",">> \o JoinElems(Tail(elems))

\* The JSON array of the elements.
JsonArrayText(elems) == <<"[">> \o JoinElems(elems) \o <<"]">>

ArrayCells == {JsonArrayText(elems) : elems \in SeqsUpTo(JsonTexts, MaxElems)}

ValueCells == TextCells \cup NumericCells \cup ArrayCells

\* Records in RFC 4180 form, of as many fields as configured, of fewer and of more.
InitRecord ==
    \E n \in 0..MaxCols, delim \in {<<>>, <<";">>}, quoteAll \in BOOLEAN,
       fields \in SeqsUpTo(ShapeCells, MaxCols + 1) \ {<<>>}, ending \in Endings :
        /\ pp = [csvFormat |-> CsvFormat(n), delimiter |-> delim, timeUnit |-> Seconds]
        /\ sent = [kind |-> "record", fields |-> fields, quoteAll |-> quoteAll,
                   term |-> ending.term, trailer |-> ending.trailer]
        /\ bs = EncodeRecord(fields, Comma(delim), quoteAll) \o ending.term \o ending.trailer

\* Arbitrary bytes, and a delimiter the reader may refuse.
InitRaw ==
    \E n \in 0..MaxCols, delim \in {<<>>, <<";", ";">>, <<"\"">>},
       raw \in SeqsUpTo({"a", ",", "\"", "\n"}, MaxRaw) :
        /\ pp = [csvFormat |-> CsvFormat(n), delimiter |-> delim, timeUnit |-> Seconds]
        /\ sent = [kind |-> "raw", fields |-> <<>>, quoteAll |-> FALSE,
                   term |-> <<>>, trailer |-> <<>>]
        /\ bs = raw

\* Records of one or two columns whose cells exercise the getters.
InitValue ==
    \E cell \in ValueCells, second \in BOOLEAN, unit \in {Seconds, Milliseconds} :
        LET fields == IF second THEN <<<<"a">>, cell>> ELSE <<cell>>
        IN /\ pp = [csvFormat |-> CsvFormat(Len(fields)), delimiter |-> <<>>,
                    timeUnit |-> unit]
           /\ sent = [kind |-> "record", fields |-> fields, quoteAll |-> FALSE,
                      term |-> <<"\n">>, trailer |-> <<>>]
           /\ bs = EncodeRecord(fields, ",", FALSE) \o <<"\n">>

Init ==
    /\ InitRecord \/ InitRaw \/ InitValue
    /\ pc = "input"
    /\ metric = NoMetric
    /\ err = "nil"
    /\ call = NoCall
    /\ res = Nil
    /\ resolver = <<>>

(***************************************************************************)
(* The calls.                                                              *)
(***************************************************************************)

\* The column names a caller asks for: the configured ones and one that is not.
Keys == DOMAIN pp.csvFormat \cup {"other"}

DoParse ==
    /\ pc = "input"
    /\ LET r == Parse(pp, bs)
       IN /\ metric' = r.metric
          /\ err' = r.err
          /\ pc' = IF r.err = "nil" THEN "metric" ELSE "failed"
    /\ UNCHANGED <<pp, sent, bs, call, res, resolver>>

\* A getter that calls nothing outside the metric.
Returns(op, key, nullable, val) ==
    /\ call = NoCall
    /\ call' = [op |-> op, key |-> key, nullable |-> nullable, typ |-> "none"]
    /\ res' = val
    /\ resolver' = <<>>
    /\ UNCHANGED <<pp, sent, bs, pc, metric, err>>

DoGetString ==
    /\ pc = "metric"
    /\ \E key \in Keys, nullable \in BOOLEAN :
        Returns("GetString", key, nullable, GetString(pp, metric, key, nullable))

DoGetFloat ==
    /\ pc = "metric"
    /\ \E key \in Keys, nullable \in BOOLEAN :
        Returns("GetFloat", key, nullable, GetFloat(pp, metric, key, nullable))

DoGetBool ==
    /\ pc = "metric"
    /\ \E key \in Keys, nullable \in BOOLEAN :
        Returns("GetBool", key, nullable, GetBool(pp, metric, key, nullable))

DoGetInt ==
    /\ pc = "metric"
    /\ \E key \in Keys, nullable \in BOOLEAN :
        Returns("GetInt", key, nullable, GetInt(pp, metric, key, nullable))

DoGetDateTime ==
    /\ pc = "metric"
    /\ call = NoCall
    /\ \E key \in Keys, nullable \in BOOLEAN :
        LET r == GetDateTime(pp, metric, key, nullable)
        IN /\ call' = [op |-> "GetDateTime", key |-> key, nullable |-> nullable,
                       typ |-> "none"]
           /\ res' = r.val
           /\ resolver' = r.resolver
    /\ UNCHANGED <<pp, sent, bs, pc, metric, err>>

DoGetElasticDateTime ==
    /\ pc = "metric"
    /\ call = NoCall
    /\ \E key \in Keys, nullable \in BOOLEAN :
        LET r == GetElasticDateTime(pp, metric, key, nullable)
        IN /\ call' = [op |-> "GetElasticDateTime", key |-> key, nullable |-> nullable,
                       typ |-> "none"]
           /\ res' = r.val
           /\ resolver' = r.resolver
    /\ UNCHANGED <<pp, sent, bs, pc, metric, err>>

\* GetArray returns the array, or ends the process in util.Logger.Fatal.
DoGetArray ==
    /\ pc = "metric"
    /\ call = NoCall
    /\ \E key \in Keys, typ \in ArrayTypes \cup {"Unknown"} :
        LET r == GetArray(pp, metric, key, typ)
        IN /\ call' = [op |-> "GetArray", key |-> key, nullable |-> FALSE, typ |-> typ]
           /\ res' = IF r.fatal THEN Nil ELSE r.val
           /\ resolver' = r.resolver
           /\ pc' = IF r.fatal THEN "halted" ELSE pc
    /\ UNCHANGED <<pp, sent, bs, metric, err>>

\* The caller takes the value returned into its row and goes on to the next column.
Take ==
    /\ pc = "metric"
    /\ call # NoCall
    /\ call' = NoCall
    /\ res' = Nil
    /\ resolver' = <<>>
    /\ UNCHANGED <<pp, sent, bs, pc, metric, err>>

Next ==
    \/ DoParse
    \/ DoGetString
    \/ DoGetFloat
    \/ DoGetBool
    \/ DoGetInt
    \/ DoGetDateTime
    \/ DoGetElasticDateTime
    \/ DoGetArray
    \/ Take

Spec == Init /\ [][Next]_vars

(***************************************************************************)
(* The claims.                                                             *)
(***************************************************************************)

\* The configured field count.
FieldCount == Cardinality(DOMAIN pp.csvFormat)

\* The producer wrote a record of exactly the configured number of fields.
SentExact == sent.kind = "record" /\ Len(sent.fields) = FieldCount

\* The text the producer wrote into the column.
Written(key) == sent.fields[pp.csvFormat[key] + 1]

\* The text with every CR LF read as LF, as the reader hands a cell over.
RECURSIVE AsRead(_)
AsRead(f) ==
    IF Len(f) = 0 THEN <<>>
    ELSE LET crlf == Len(f) >= 2 /\ f[1] = "\r" /\ f[2] = "\n"
         IN <<IF crlf THEN "\n" ELSE f[1]>> \o AsRead(Drop(f, IF crlf THEN 3 ELSE 2))

\* The last call was the getter op on a configured column.
Called(op) == pc = "metric" /\ call.op = op

\* The cell the last call was about (for a configured column).
CalledCell == Cell(pp, metric, call.key)

\* C1: Parse returns a Metric only when the record has exactly the configured
\* number of fields: a record of fewer or more fields gives an error and no
\* Metric, and every Metric holds as many values as csvFormat has columns.
C1_MetricHasConfiguredFieldCount ==
    /\ ~metric.isNil => Len(metric.values) = FieldCount
    /\ pc # "input" => (metric.isNil <=> err # "nil")
    /\ (pc # "input" /\ sent.kind = "record" /\ Len(sent.fields) # FieldCount)
          => (metric.isNil /\ err # "nil" /\ pc = "failed")

C1_Witness ==
    /\ pc = "failed"
    /\ sent.kind = "record"
    /\ FieldCount >= 1
    /\ Len(sent.fields) = FieldCount + 1
    /\ err = "ErrFieldCount"

\* C2, as claimed: for a record of exactly N fields Parse succeeds and
\* GetString on each configured column returns that column's cell text, for
\* every cell text and either value of nullable.
C2_GetStringReturnsEveryCellText ==
    /\ (pc # "input" /\ SentExact) => pc # "failed"
    /\ (Called("GetString") /\ SentExact /\ Known(pp, call.key))
          => res = StringVal(Written(call.key))

\* C2, amended: for a record of exactly N fields Parse succeeds and GetString
\* on each configured column returns that column's cell text, a CR LF in it
\* read as LF, except for the text "null": that gives the null marker when
\* nullable and the empty string when not.
C2_GetStringReturnsCellTextUnlessNull ==
    /\ (pc # "input" /\ SentExact) => pc # "failed"
    /\ (Called("GetString") /\ SentExact /\ Known(pp, call.key))
          => res = IF Written(call.key) = NullText
                   THEN IF call.nullable THEN Nil ELSE StringVal(<<>>)
                   ELSE StringVal(AsRead(Written(call.key)))

C2_Witness ==
    /\ Called("GetString")
    /\ SentExact
    /\ FieldCount = 2
    /\ pp.delimiter = <<";">>
    /\ ~sent.quoteAll
    /\ call.key = "c2"
    /\ Written("c1") = <<",", ";">>
    /\ Written("c2") = <<"\"", "\n">>
    /\ res = StringVal(<<"\"", "\n">>)

ScalarGetters == {"GetString", "GetBool", "GetInt", "GetFloat", "GetDateTime"}

\* The zero value of a scalar getter's type.
ZeroValue(op) ==
    CASE op = "GetString" -> StringVal(<<>>)
      [] op = "GetBool" -> BoolVal(FALSE)
      [] op = "GetInt" -> IntVal(0)
      [] op = "GetFloat" -> FloatVal(NumOfInt(0))
      [] op = "GetDateTime" -> TimeVal(Epoch)

\* The shared absence rule: the column is unknown or its cell is "null".
Absent == ~Known(pp, call.key) \/ CalledCell = NullText

\* The absence rule of the code: GetBool takes the empty cell as absent too.
AbsentTo(op) == Absent \/ (op = "GetBool" /\ CalledCell = <<>>)

\* C3, as claimed: a scalar getter returns the null marker exactly when
\* nullable is true and the column is absent (unknown, or its cell is
\* "null"), and the zero value of its type when absent and not nullable.
C3_NullExactlyWhenAbsentAndNullable ==
    (pc = "metric" /\ call.op \in ScalarGetters)
        => /\ (res = Nil) <=> (call.nullable /\ Absent)
           /\ (Absent /\ ~call.nullable) => res = ZeroValue(call.op)

\* C3, amended: the same, where for GetBool an empty cell counts as absent
\* as well: GetBool on an empty cell returns the null marker when nullable.
C3_NullExactlyWhenAbsentToGetter ==
    (pc = "metric" /\ call.op \in ScalarGetters)
        => /\ (res = Nil) <=> (call.nullable /\ AbsentTo(call.op))
           /\ (AbsentTo(call.op) /\ ~call.nullable) => res = ZeroValue(call.op)

C3_Witness ==
    /\ Called("GetBool")
    /\ Known(pp, call.key)
    /\ CalledCell = <<>>
    /\ call.nullable
    /\ res = Nil

\* The integer a text of digits denotes.
RECURSIVE DecimalValue(_)
DecimalValue(digits) ==
    IF Len(digits) = 0 THEN 0
    ELSE 10 * DecimalValue(SubSeq(digits, 1, Len(digits) - 1))
         + DigitVal(digits[Len(digits)])

\* The integer of the longest leading integer prefix of s, trailing text
\* ignored; 0 when s has no such prefix.
LeadingInteger(s) ==
    LET j == IF Len(s) > 0 /\ s[1] = "-" THEN 2 ELSE 1
        i == DigitsEnd(s, j)
        d == DecimalValue(SubSeq(s, j, i - 1))
    IN IF i <= j THEN 0 ELSE IF j = 2 THEN -d ELSE d

\* The integer of s when all of s is an integer: an optional '-', then digits
\* only; 0 for any other text.
WholeInteger(s) ==
    LET digits == IF Len(s) > 0 /\ s[1] = "-" THEN Tail(s) ELSE s
    IN IF Len(digits) > 0 /\ \A i \in 1..Len(digits) : IsDigit(digits[i])
       THEN IF digits = s THEN DecimalValue(digits) ELSE -DecimalValue(digits)
       ELSE 0

C5_GetDateTimeTriesNumberFirst ==
    (Called("GetDateTime") /\ ~Absent)
        => LET dd == ParseFloat(CalledCell)
               d  == ParseDateTime(call.key, CalledCell)
           IN /\ res.t = "time.Time"
              /\ dd.ok => (res = TimeVal(UnixFloat(dd.num, pp.timeUnit)) /\ resolver = <<>>)
              /\ (resolver # <<>>) => ~dd.ok
              /\ ~dd.ok => resolver = <<[key |-> call.key, s |-> CalledCell]>>
              /\ (~dd.ok /\ ~d.ok) => res = TimeVal(Epoch)
              /\ (~dd.ok /\ d.ok) => res = TimeVal(d.t)

C5_Witness ==
    /\ Called("GetDateTime")
    /\ call.key = "c2"
    /\ CalledCell = <<"1", "9", "7", "1">>
    /\ ParseDateTime(call.key, CalledCell).ok
    /\ pp.timeUnit = Seconds
    /\ res = TimeVal(NumOfInt(1971))
    /\ resolver = <<>>

\* n is the number of whole seconds of the instant x.
WholeSecondsOf(x, n) == n * Pow10(x.e) <= x.m /\ x.m < (n + 1) * Pow10(x.e)

HoldsNoArray(cell) ==
    \/ cell = <<>>
    \/ cell[1] # "["
    \/ cell \in {<<"[", "]">>, <<"[", " ", "]">>, <<"[">>}

\* C7: GetArray never returns the null marker; for a supported element type
\* and an unknown column, a "null" cell, an empty cell, a cell that does not
\* start with '[' or brackets that hold no element, it returns the empty
\* array of the requested element type.
C7_GetArrayNeverNull ==
    (pc = "metric" /\ call.op = "GetArray")
        => /\ res.t = "array"
           /\ res.elem = call.typ
           /\ call.typ \in ArrayTypes
           /\ (Absent \/ HoldsNoArray(CalledCell)) => res = ArrayVal(call.typ, <<>>)

C7_Witness ==
    /\ Called("GetArray")
    /\ call.typ = "DateTime"
    /\ Known(pp, call.key)
    /\ CalledCell = NullText
    /\ res = ArrayVal("DateTime", <<>>)

\* The int64 of a JSON element as the claim gives it: 1 for true, the integer
\* of a number that is an integer, 0 for a fractional number and for anything
\* that is not a number.
ClaimedInt(text) ==
    CASE text = <<"1">> -> 1
      [] text = <<"2", ".", "0">> -> 2
      [] text = <<"2", ".", "5">> -> 0
      [] text = TrueText -> 1
      [] OTHER -> 0

\* C8: GetArray with element type Int returns one int64 per element of the
\* JSON array, in order: 1 for true, a number's integer when the number is
\* that integer exactly and 0 when not, 0 for false, null, a string, an
\* object or an array.  "[1,2.5,true]" gives [1, 0, 1].
C8_IntArrayElements ==
    (Called("GetArray") /\ call.typ = "Int" /\ Known(pp, call.key))
        => /\ \A elems \in SeqsUpTo(JsonTexts, MaxElems) \ {<<>>} :
                CalledCell = JsonArrayText(elems)
                    => res = ArrayVal("Int", [i \in 1..Len(elems) |-> ClaimedInt(elems[i])])
           /\ CalledCell = <<"[", "1", ",", "2", ".", "5", ",", "t", "r", "u", "e", "]">>
                => res = ArrayVal("Int", <<1, 0, 1>>)

C8_Witness ==
    /\ Called("GetArray")
    /\ call.typ = "Int"
    /\ Known(pp, call.key)
    /\ CalledCell = <<"[", "1", ",", "2", ".", "5", ",", "t", "r", "u", "e", "]">>
    /\ res = ArrayVal("Int", <<1, 0, 1>>)

\* C9: GetArray with an element type outside the supported set halts the
\* process, whatever the column and the cell; Parse and the getters called
\* with a supported element type never halt it.
C9_OnlyUnsupportedArrayTypeHalts ==
    /\ (call.op = "GetArray" /\ call.typ \notin ArrayTypes) => pc = "halted"
    /\ pc = "halted" => (call.op = "GetArray" /\ call.typ \notin ArrayTypes)

C9_Witness ==
    /\ pc = "halted"
    /\ call.op = "GetArray"
    /\ call.typ = "Unknown"
    /\ Known(pp, call.key)
    /\ CalledCell = <<"[", "1", "]">>

====
